---- MODULE Spec2Model ----
(***************************************************************************)
(* Chitro recorder backend: the Motia step handlers (upload, upload-url,   *)
(* get, list, delete, the video-uploaded event step, the cleanup cron),    *)
(* the Express upload route of motia.config.ts, and the S3Service /        *)
(* VideoService / db helpers they call.  Every handler is one action; a    *)
(* handler's awaited calls may each fail (the `fault` input), which the    *)
(* handler's own try/catch turns into its result.                          *)
(***************************************************************************)
EXTENDS Integers, Sequences, FiniteSets, TLC

\* ---------------------------------------------------------------- bounds
MaxVideos == 2      \* number of ids randomUUID() hands out in a run
MaxClock == 3       \* largest reading of the clock
MaxThrows == 1      \* number of awaited calls that fail in a run
MaxRuns == 2        \* number of handler runs in flight at once

\* ---------------------------------------------------------------- inputs
VideoIds == 1..MaxVideos
NoId == 0

\* A filename is the sequence of its '.'-separated parts: <<"a", "webm">> is "a.webm"
NoHeader == <<>>
NoContentType == ""

\* req.body as the upload step tells it apart: a Buffer, a multer file, JSON with a
\* base64 `video`, or anything else; len is the length of the decoded payload.
\* filename and contentType are the ones the request carries, if any.
UploadRequests ==
    {[kind |-> "buffer", len |-> 1, filename |-> <<"a", "webm">>, contentType |-> "video/mp4"],
     [kind |-> "buffer", len |-> 2, filename |-> NoHeader, contentType |-> NoContentType],
     [kind |-> "file", len |-> 2, filename |-> NoHeader, contentType |-> NoContentType],
     [kind |-> "json", len |-> 1, filename |-> <<"a", "webm">>, contentType |-> "video/mp4"],
     [kind |-> "buffer", len |-> 0, filename |-> <<"a", "webm">>, contentType |-> "video/mp4"],
     [kind |-> "unknown", len |-> 0, filename |-> NoHeader, contentType |-> NoContentType]}

\* the bodies express.raw() hands to the Express route
ExpressRequests == {r \in UploadRequests : r.kind = "buffer"}

\* bodies of POST /api/recorder/upload-url; size 0 stands for a body without `size`
UploadUrlRequests ==
    {[filename |-> <<"a", "webm">>, contentType |-> "video/mp4", size |-> 0],
     [filename |-> <<"b">>, contentType |-> NoContentType, size |-> 1]}

\* the text of the ?limit= query parameter, as a sequence of characters
LimitParams == {<<>>, <<"1">>, <<"x">>}

VARIABLES
    videosTable,     \* rows of the Postgres table `videos`
    bucket,          \* keys of the objects stored in the bucket
    state,           \* Motia state: group -> (key -> value)
    uploadedTopic,   \* video-uploaded events emitted so far (delivered at least once)
    nextId,          \* the next id randomUUID() returns
    now,             \* the clock: what NOW() and new Date() read in this handler run
    usePresigned,    \* process.env.S3_USE_PRESIGNED === 'true'
    initialized,     \* db.ts: let initialized
    tableCreated,    \* the table `videos` exists in the database
    thrown,          \* number of awaited calls that have failed so far
    resp,            \* what the last handler run returned, and what it emitted
    calls            \* the handler runs in flight: where each is, and its locals

vars == <<videosTable, bucket, state, uploadedTopic, nextId, now, usePresigned,
          initialized, tableCreated, thrown, resp, calls>>

\* ---------------------------------------------------------------- values
NoKey == [id |-> NoId, ext |-> ""]
NoUrl == [kind |-> "", key |-> NoKey, at |-> 0]
NoVideo == [id |-> NoId, filename |-> <<>>, contentType |-> "", size |-> 0,
            createdAt |-> 0, s3Key |-> NoKey, s3Url |-> NoUrl]
NoList == [videos |-> <<>>, count |-> 0]
NaN == -1

DefaultFilename == <<"chitro-recording", "webm">>
DefaultContentType == "video/webm"

\* the result of a handler run; fields a handler does not set keep these values
BaseResp(op) ==
    [op |-> op, status |-> 0, failed |-> "none", outcome |-> "returned",
     id |-> NoId, s3Key |-> NoKey, publicUrl |-> NoUrl, video |-> NoVideo,
     list |-> NoList, hit |-> FALSE, emits |-> <<>>, probes |-> 0,
     reqLen |-> 0, reqContentType |-> "", reqLimit |-> 0, error |-> ""]

Event(topic, videoId, s3Key, filename, contentType, size, publicUrl) ==
    [topic |-> topic, videoId |-> videoId, s3Key |-> s3Key, filename |-> filename,
     contentType |-> contentType, size |-> size, publicUrl |-> publicUrl]

\* the object cached under state group `videos`
Snapshot(videoId, filename, contentType, size, t, s3Key, publicUrl) ==
    [id |-> videoId, filename |-> filename, contentType |-> contentType,
     size |-> size, createdAt |-> t, s3Key |-> s3Key, s3Url |-> publicUrl]

StateGroups == {"videos", "video-lists", "upload-urls", "s3-verifications"}

\* handler runs that interleave at their awaits
Runs == 1..MaxRuns

\* a run that is not in flight
IdleCall ==
    [op |-> "", pc |-> "idle", args |-> <<>>, startedAt |-> 0, status |-> 0,
     error |-> "", list |-> NoList]

\* ------------------------------------------------- Motia state (call sites)
StateGet(st, group, key) ==
    IF key \in DOMAIN st[group] THEN <<st[group][key]>> ELSE <<>>

StateSet(st, group, key, value) ==
    [st EXCEPT ![group] =
        [k \in (DOMAIN st[group]) \cup {key} |-> IF k = key THEN value ELSE st[group][k]]]

StateDelete(st, group, key) ==
    [st EXCEPT ![group] = [k \in (DOMAIN st[group]) \ {key} |-> st[group][k]]]

StateClear(st, group) ==
    [st EXCEPT ![group] = <<>>]

StateGetGroup(st, group) ==
    {st[group][k] : k \in DOMAIN st[group]}

\* ---------------------------------------------------------------- S3Service
\* filename.split('.').pop() || 'webm'
Extension(filename) ==
    IF filename[Len(filename)] = "" THEN "webm" ELSE filename[Len(filename)]

\* `videos/${videoId}.${extension}`
S3KeyOf(videoId, filename) == [id |-> videoId, ext |-> Extension(filename)]

\* `${publicUrlBase}/${s3Key}`
PublicUrlOf(s3Key) == [kind |-> "public", key |-> s3Key, at |-> 0]

\* S3Service.generatePublicUrl: a presigned URL carries its signing time
GeneratePublicUrl(s3Key, presigned, t) ==
    IF presigned THEN [kind |-> "presigned", key |-> s3Key, at |-> t]
    ELSE PublicUrlOf(s3Key)

\* S3Service.verifyObjectExists: HEAD the key; any error answers false
VerifyObjectExists(objects, s3Key, headThrows) ==
    IF headThrows THEN FALSE ELSE s3Key \in objects

\* ---------------------------------------------------------------- db / pg
\* a BIGINT column comes back from pg as decimal text
RECURSIVE DecimalText(_)
DecimalText(n) ==
    IF n < 10 THEN <<n>> ELSE Append(DecimalText(n \div 10), n % 10)

\* Number(row.size)
RECURSIVE NumberOf(_)
NumberOf(text) ==
    IF Len(text) = 0 THEN 0
    ELSE 10 * NumberOf(SubSeq(text, 1, Len(text) - 1)) + text[Len(text)]

\* ensureVideoTable: the flag is raised before CREATE TABLE is awaited, so only
\* the first caller runs the query, and only that call can fail
EnsureThrows(init, fault) == (~init) /\ fault = "ensure"

EnsureCreates(init, created, fault) ==
    created \/ ((~init) /\ ~EnsureThrows(init, fault))

\* id UUID PRIMARY KEY: no two rows of the table share an id
PrimaryKeyHolds(table) == \A r, q \in table : r.id = q.id => r = q

UndefinedTableError == "relation \"videos\" does not exist"
DuplicateKeyError == "duplicate key value violates unique constraint"

\* ---------------------------------------------------------------- VideoService
\* publicUrl || await S3Service.generatePublicUrl(s3Key)
FinalPublicUrl(publicUrl, s3Key, presigned, t) ==
    IF publicUrl # NoUrl THEN publicUrl ELSE GeneratePublicUrl(s3Key, presigned, t)

\* faulty variant: the INSERT without its ON CONFLICT clause taking effect
InsertAlways(table, row) == table \cup {row}

\* faulty variant: on a conflict the whole row is replaced by the new values
InsertOnConflictOverwrites(table, row) ==
    {r \in table : r.id # row.id} \cup {row}

\* INSERT INTO videos ... ON CONFLICT (id) DO UPDATE SET public_url = $6
InsertOnConflict(table, row) ==
    IF \E r \in table : r.id = row.id
    THEN {IF r.id = row.id THEN [r EXCEPT !.public_url = row.public_url] ELSE r : r \in table}
    ELSE table \cup {row}

\* faulty variant: the size argument is dropped and the row is stored with size 0
CreateVideoMetadataSizeLost(table, videoId, filename, contentType, size, s3Key, publicUrl, presigned, t) ==
    InsertOnConflict(table,
        [id |-> videoId, filename |-> filename, content_type |-> contentType,
         size |-> 0, created_at |-> t, s3_key |-> s3Key,
         public_url |-> FinalPublicUrl(publicUrl, s3Key, presigned, t)])

\* VideoService.createVideoMetadata: the table after the call
CreateVideoMetadata(table, videoId, filename, contentType, size, s3Key, publicUrl, presigned, t) ==
    InsertOnConflict(table,
        [id |-> videoId, filename |-> filename, content_type |-> contentType,
         size |-> size, created_at |-> t, s3_key |-> s3Key,
         public_url |-> FinalPublicUrl(publicUrl, s3Key, presigned, t)])

\* faulty variant: the s3_key column is not carried over to the result
RowToMetadataKeyLost(row) ==
    [id |-> row.id, filename |-> row.filename, contentType |-> row.content_type,
     size |-> NumberOf(DecimalText(row.size)), createdAt |-> row.created_at,
     s3Key |-> NoKey, s3Url |-> row.public_url]

\* a selected row as VideoMetadata
RowToMetadata(row) ==
    [id |-> row.id, filename |-> row.filename, contentType |-> row.content_type,
     size |-> NumberOf(DecimalText(row.size)), createdAt |-> row.created_at,
     s3Key |-> row.s3_key, s3Url |-> row.public_url]

\* faulty variant: the SELECT has lost its WHERE clause and answers any row
GetVideoMetadataAnyRow(table, videoId) ==
    IF table # {} THEN RowToMetadata(CHOOSE r \in table : TRUE) ELSE NoVideo

\* VideoService.getVideoMetadata: rows[0] of SELECT ... WHERE id = $1, or null
GetVideoMetadata(table, videoId) ==
    IF \E r \in table : r.id = videoId
    THEN RowToMetadata(CHOOSE r \in table : r.id = videoId)
    ELSE NoVideo

\* faulty variant: the rows come back oldest first
RECURSIVE OrderedRowsAscending(_, _)
OrderedRowsAscending(rows, limit) ==
    IF rows = {} \/ limit = 0 THEN <<>>
    ELSE LET first == CHOOSE r \in rows : \A q \in rows : r.created_at <= q.created_at
         IN <<first>> \o OrderedRowsAscending(rows \ {first}, limit - 1)

\* SELECT ... ORDER BY created_at DESC LIMIT $1
RECURSIVE OrderedRows(_, _)
OrderedRows(rows, limit) ==
    IF rows = {} \/ limit = 0 THEN <<>>
    ELSE LET first == CHOOSE r \in rows : \A q \in rows : q.created_at <= r.created_at
         IN <<first>> \o OrderedRows(rows \ {first}, limit - 1)

\* VideoService.listVideos
ListVideosQuery(table, limit) ==
    LET rows == OrderedRows(table, limit)
    IN [i \in 1..Len(rows) |-> RowToMetadata(rows[i])]

\* faulty variant: the DELETE reports a removed row whatever it matched
DeleteReturnedAlways(table, videoId) == TRUE

\* faulty variant: the DELETE matches the row but leaves it in the table
DeleteRowsKept(table, videoId) == table

\* VideoService.deleteVideo: DELETE ... WHERE id = $1 RETURNING id
DeleteRows(table, videoId) == {r \in table : r.id # videoId}

DeleteReturned(table, videoId) == \E r \in table : r.id = videoId

\* ---------------------------------------------------------------- Init
Init ==
    /\ videosTable = {}
    /\ bucket = {}
    /\ state = [g \in StateGroups |-> <<>>]
    /\ uploadedTopic = {}
    /\ nextId = 1
    /\ now = 1
    /\ usePresigned \in BOOLEAN
    /\ initialized = FALSE
    /\ tableCreated = FALSE
    /\ thrown = 0
    /\ resp = BaseResp("start")
    /\ calls = [run \in Runs |-> IdleCall]

\* ---------------------------------------------------------------- upload-video.step.ts
InvalidBodyError == "Invalid request body format"
EmptyVideoError == "Video file is empty"

\* faulty variant: the length test lets every payload through
VideoBufferIsEmptyIgnored(len) == FALSE

\* videoBuffer.length === 0
VideoBufferIsEmpty(len) == len = 0

UploadVideoFaults == {"none", "s3", "ensure", "db", "stateSet", "stateClear", "emit"}

\* what the handler's catch block returns; the steps before the throw stay done
UploadVideoStatus(completed) == IF completed THEN 200 ELSE 500

\* faulty variant: the cache steps run whether or not the calls before them succeeded
UploadVideoCacheUnguarded(st, setOk, clearOk, snapshot) ==
    StateClear(StateSet(st, "videos", snapshot.id, snapshot), "video-lists")

\* the handler's state.set('videos', ...) and state.clear('video-lists')
UploadVideoCache(st, setOk, clearOk, snapshot) ==
    LET afterSet == IF setOk THEN StateSet(st, "videos", snapshot.id, snapshot) ELSE st
    IN IF clearOk THEN StateClear(afterSet, "video-lists") ELSE afterSet

UploadVideo(req, fault) ==
    LET filename == IF req.filename = NoHeader THEN DefaultFilename ELSE req.filename
        contentType == IF req.contentType = NoContentType THEN DefaultContentType
                       ELSE req.contentType
        len == req.len
        request == BaseResp("UploadVideo")
    IN IF req.kind = "unknown" \/ VideoBufferIsEmpty(len)
       THEN /\ fault = "none"
            /\ resp' = [request EXCEPT
                  !.status = 400,
                  !.error = IF req.kind = "unknown" THEN InvalidBodyError
                            ELSE EmptyVideoError]
            /\ UNCHANGED <<videosTable, bucket, state, uploadedTopic, nextId, now,
                           usePresigned, initialized, tableCreated>>
       ELSE
         LET videoId == nextId
             s3Key == S3KeyOf(videoId, filename)
             publicUrl == PublicUrlOf(s3Key)
             s3Ok == fault # "s3"
             ensureOk == s3Ok /\ ~EnsureThrows(initialized, fault)
             created == EnsureCreates(initialized, tableCreated, fault)
             dbOk == ensureOk /\ created /\ fault # "db"
             setOk == dbOk /\ fault # "stateSet"
             clearOk == setOk /\ fault # "stateClear"
             emitOk == clearOk /\ fault # "emit"
             failed == IF ~s3Ok THEN "s3" ELSE IF ~ensureOk THEN "ensure"
                       ELSE IF ~dbOk THEN "db" ELSE IF ~setOk THEN "stateSet"
                       ELSE IF ~clearOk THEN "stateClear" ELSE IF ~emitOk THEN "emit"
                       ELSE "none"
             event == Event("video-uploaded", videoId, s3Key, filename, contentType,
                            len, publicUrl)
         IN /\ nextId <= MaxVideos
            /\ now < MaxClock
            /\ fault \in {"none", failed}
            /\ bucket' = IF s3Ok THEN bucket \cup {s3Key} ELSE bucket
            /\ nextId' = IF s3Ok THEN nextId + 1 ELSE nextId
            /\ initialized' = (initialized \/ s3Ok)
            /\ tableCreated' = IF s3Ok THEN created ELSE tableCreated
            /\ videosTable' = IF dbOk
                  THEN CreateVideoMetadata(videosTable, videoId, filename, contentType,
                                           len, s3Key, publicUrl, usePresigned, now)
                  ELSE videosTable
            /\ state' = UploadVideoCache(state, setOk, clearOk,
                  Snapshot(videoId, filename, contentType, len, now, s3Key, publicUrl))
            /\ now' = IF dbOk THEN now + 1 ELSE now
            /\ uploadedTopic' = IF emitOk THEN uploadedTopic \cup {event} ELSE uploadedTopic
            /\ resp' = [request EXCEPT
                  !.status = UploadVideoStatus(emitOk),
                  !.failed = failed,
                  !.reqLen = IF emitOk THEN len ELSE 0,
                  !.reqContentType = IF emitOk THEN contentType ELSE "",
                  !.id = IF s3Ok THEN videoId ELSE NoId,
                  !.s3Key = IF emitOk THEN s3Key ELSE NoKey,
                  !.publicUrl = IF emitOk THEN publicUrl ELSE NoUrl,
                  !.emits = IF emitOk THEN <<event>> ELSE <<>>]
            /\ UNCHANGED usePresigned

\* ---------------------------------------------------------------- motia.config.ts
ExpressUploadFaults == {"none", "s3", "ensure", "db"}

\* app.post('/api/recorder/upload'): upload and persist, no state, no emit
ExpressUpload(req, fault) ==
    LET filename == IF req.filename = NoHeader THEN DefaultFilename ELSE req.filename
        contentType == IF req.contentType = NoContentType THEN DefaultContentType
                       ELSE req.contentType
        len == req.len
        request == BaseResp("ExpressUpload")
    IN IF VideoBufferIsEmpty(len)
       THEN /\ fault = "none"
            /\ resp' = [request EXCEPT !.status = 400, !.error = EmptyVideoError]
            /\ UNCHANGED <<videosTable, bucket, state, uploadedTopic, nextId, now,
                           usePresigned, initialized, tableCreated>>
       ELSE
         LET videoId == nextId
             s3Key == S3KeyOf(videoId, filename)
             publicUrl == PublicUrlOf(s3Key)
             s3Ok == fault # "s3"
             ensureOk == s3Ok /\ ~EnsureThrows(initialized, fault)
             created == EnsureCreates(initialized, tableCreated, fault)
             dbOk == ensureOk /\ created /\ fault # "db"
             failed == IF ~s3Ok THEN "s3" ELSE IF ~ensureOk THEN "ensure"
                       ELSE IF ~dbOk THEN "db" ELSE "none"
         IN /\ nextId <= MaxVideos
            /\ now < MaxClock
            /\ fault \in {"none", failed}
            /\ bucket' = IF s3Ok THEN bucket \cup {s3Key} ELSE bucket
            /\ nextId' = IF s3Ok THEN nextId + 1 ELSE nextId
            /\ initialized' = (initialized \/ s3Ok)
            /\ tableCreated' = IF s3Ok THEN created ELSE tableCreated
            /\ videosTable' = IF dbOk
                  THEN CreateVideoMetadata(videosTable, videoId, filename, contentType,
                                           len, s3Key, publicUrl, usePresigned, now)
                  ELSE videosTable
            /\ now' = IF dbOk THEN now + 1 ELSE now
            /\ resp' = [request EXCEPT
                  !.status = IF dbOk THEN 200 ELSE 500,
                  !.failed = failed,
                  !.reqLen = IF dbOk THEN len ELSE 0,
                  !.reqContentType = IF dbOk THEN contentType ELSE "",
                  !.id = IF s3Ok THEN videoId ELSE NoId,
                  !.s3Key = IF dbOk THEN s3Key ELSE NoKey,
                  !.publicUrl = IF dbOk THEN publicUrl ELSE NoUrl]
            /\ UNCHANGED <<state, uploadedTopic, usePresigned>>

\* ---------------------------------------------------------------- get-upload-url.step.ts
GetUploadUrlFaults == {"none", "s3", "ensure", "db", "stateSet", "emit"}

\* the presigned PUT url of S3Service.generateUploadUrl
UploadUrlOf(s3Key, t) == [kind |-> "upload", key |-> s3Key, at |-> t]

\* the body schema defaults contentType to 'video/webm'; the row gets size || 0
GetUploadUrl(req, fault) ==
    LET filename == req.filename
        contentType == IF req.contentType = NoContentType THEN DefaultContentType
                       ELSE req.contentType
        size == req.size
        videoId == nextId
        s3Key == S3KeyOf(videoId, filename)
        uploadUrl == UploadUrlOf(s3Key, now)
        s3Ok == fault # "s3"
        ensureOk == s3Ok /\ ~EnsureThrows(initialized, fault)
        created == EnsureCreates(initialized, tableCreated, fault)
        dbOk == ensureOk /\ created /\ fault # "db"
        setOk == dbOk /\ fault # "stateSet"
        emitOk == setOk /\ fault # "emit"
        failed == IF ~s3Ok THEN "s3" ELSE IF ~ensureOk THEN "ensure"
                  ELSE IF ~dbOk THEN "db" ELSE IF ~setOk THEN "stateSet"
                  ELSE IF ~emitOk THEN "emit" ELSE "none"
        event == Event("video-upload-initiated", videoId, s3Key, filename, contentType,
                       size, NoUrl)
    IN /\ nextId <= MaxVideos
       /\ now < MaxClock
       /\ fault \in {"none", failed}
       /\ nextId' = IF dbOk THEN nextId + 1 ELSE nextId
       /\ initialized' = (initialized \/ s3Ok)
       /\ tableCreated' = IF s3Ok THEN created ELSE tableCreated
       /\ videosTable' = IF dbOk
             THEN CreateVideoMetadata(videosTable, videoId, filename, contentType,
                                      size, s3Key, NoUrl, usePresigned, now)
             ELSE videosTable
       /\ state' = IF setOk
             THEN StateSet(state, "upload-urls", videoId,
                           [uploadUrl |-> uploadUrl, videoId |-> videoId, s3Key |-> s3Key,
                            filename |-> filename, contentType |-> contentType,
                            createdAt |-> now])
             ELSE state
       /\ now' = IF dbOk THEN now + 1 ELSE now
       /\ resp' = [BaseResp("GetUploadUrl") EXCEPT
             !.status = IF emitOk THEN 200 ELSE 500,
             !.failed = failed,
             !.id = IF dbOk THEN videoId ELSE NoId,
             !.s3Key = IF emitOk THEN s3Key ELSE NoKey,
             !.publicUrl = IF emitOk THEN uploadUrl ELSE NoUrl,
             !.reqLen = IF emitOk THEN size ELSE 0,
             !.reqContentType = IF emitOk THEN contentType ELSE "",
             !.emits = IF emitOk THEN <<event>> ELSE <<>>]
       /\ UNCHANGED <<bucket, uploadedTopic, usePresigned>>

\* the file's second handler definition of the same route: the same S3 and
\* database calls, no state.set and no emit (config.emits is [])
GetUploadUrlSecondFaults == {"none", "s3", "ensure", "db"}

GetUploadUrlSecond(req, fault) ==
    LET filename == req.filename
        contentType == IF req.contentType = NoContentType THEN DefaultContentType
                       ELSE req.contentType
        size == req.size
        videoId == nextId
        s3Key == S3KeyOf(videoId, filename)
        uploadUrl == UploadUrlOf(s3Key, now)
        s3Ok == fault # "s3"
        ensureOk == s3Ok /\ ~EnsureThrows(initialized, fault)
        created == EnsureCreates(initialized, tableCreated, fault)
        dbOk == ensureOk /\ created /\ fault # "db"
        failed == IF ~s3Ok THEN "s3" ELSE IF ~ensureOk THEN "ensure"
                  ELSE IF ~dbOk THEN "db" ELSE "none"
    IN /\ nextId <= MaxVideos
       /\ now < MaxClock
       /\ fault \in {"none", failed}
       /\ nextId' = IF dbOk THEN nextId + 1 ELSE nextId
       /\ initialized' = (initialized \/ s3Ok)
       /\ tableCreated' = IF s3Ok THEN created ELSE tableCreated
       /\ videosTable' = IF dbOk
             THEN CreateVideoMetadata(videosTable, videoId, filename, contentType,
                                      size, s3Key, NoUrl, usePresigned, now)
             ELSE videosTable
       /\ now' = IF dbOk THEN now + 1 ELSE now
       /\ resp' = [BaseResp("GetUploadUrl") EXCEPT
             !.status = IF dbOk THEN 200 ELSE 500,
             !.failed = failed,
             !.id = IF dbOk THEN videoId ELSE NoId,
             !.s3Key = IF dbOk THEN s3Key ELSE NoKey,
             !.publicUrl = IF dbOk THEN uploadUrl ELSE NoUrl,
             !.reqLen = IF dbOk THEN size ELSE 0,
             !.reqContentType = IF dbOk THEN contentType ELSE ""]
       /\ UNCHANGED <<bucket, state, uploadedTopic, usePresigned>>

\* ---------------------------------------------------------------- get-video.step.ts
GetVideoFaults == {"none", "ensure", "db"}

GetVideo(videoId, fault) ==
    LET ensureOk == ~EnsureThrows(initialized, fault)
        created == EnsureCreates(initialized, tableCreated, fault)
        dbOk == ensureOk /\ created /\ fault # "db"
        failed == IF ~ensureOk THEN "ensure" ELSE IF ~dbOk THEN "db" ELSE "none"
        video == GetVideoMetadata(videosTable, videoId)
    IN /\ fault \in {"none", failed}
       /\ initialized' = TRUE
       /\ tableCreated' = created
       /\ resp' = [BaseResp("GetVideo") EXCEPT
             !.status = IF ~dbOk THEN 500 ELSE IF video = NoVideo THEN 404 ELSE 200,
             !.failed = failed,
             !.id = videoId,
             !.video = IF dbOk THEN video ELSE NoVideo]
       /\ UNCHANGED <<videosTable, bucket, state, uploadedTopic, nextId, now, usePresigned>>

\* ---------------------------------------------------------------- delete-video.step.ts
DeleteVideoFaults == {"none", "ensure", "db", "dbDelete", "stateDelete", "stateClear", "emit"}

\* faulty variant: the cache cleanup runs whatever the lookup and the DELETE found
DeleteVideoCacheUnguarded(st, videoId, deleteOk, clearOk) ==
    StateClear(StateDelete(st, "videos", videoId), "video-lists")

\* faulty variant: the cleanup also drops the id's upload-urls entry
DeleteVideoCacheDropsGrant(st, videoId, deleteOk, clearOk) ==
    LET afterDelete == IF deleteOk
                       THEN StateDelete(StateDelete(st, "videos", videoId),
                                        "upload-urls", videoId)
                       ELSE st
    IN IF clearOk THEN StateClear(afterDelete, "video-lists") ELSE afterDelete

\* faulty variant: video-lists is cleared first, videos[id] deleted second
DeleteVideoCacheClearsFirst(st, videoId, deleteOk, clearOk) ==
    LET afterClear == IF deleteOk THEN StateClear(st, "video-lists") ELSE st
    IN IF clearOk THEN StateDelete(afterClear, "videos", videoId) ELSE afterClear

\* the cache cleanup of a delete: state.delete('videos', id), state.clear('video-lists')
DeleteVideoCache(st, videoId, deleteOk, clearOk) ==
    LET afterDelete == IF deleteOk THEN StateDelete(st, "videos", videoId) ELSE st
    IN IF clearOk THEN StateClear(afterDelete, "video-lists") ELSE afterDelete

DeleteVideo(videoId, fault) ==
    LET ensureOk == ~EnsureThrows(initialized, fault)
        created == EnsureCreates(initialized, tableCreated, fault)
        getOk == ensureOk /\ created /\ fault # "db"
        video == GetVideoMetadata(videosTable, videoId)
        found == getOk /\ video # NoVideo
        removeOk == found /\ fault # "dbDelete"
        deleted == removeOk /\ DeleteReturned(videosTable, videoId)
        deleteOk == deleted /\ fault # "stateDelete"
        clearOk == deleteOk /\ fault # "stateClear"
        emitOk == clearOk /\ fault # "emit"
        failed == IF ~ensureOk THEN "ensure" ELSE IF ~getOk THEN "db"
                  ELSE IF ~found THEN "none" ELSE IF ~removeOk THEN "dbDelete"
                  ELSE IF ~deleted THEN "none" ELSE IF ~deleteOk THEN "stateDelete"
                  ELSE IF ~clearOk THEN "stateClear" ELSE IF ~emitOk THEN "emit"
                  ELSE "none"
        event == Event("video-deleted", videoId, video.s3Key, video.filename, "", 0, NoUrl)
    IN /\ fault \in {"none", failed}
       /\ initialized' = TRUE
       /\ tableCreated' = created
       /\ videosTable' = IF removeOk THEN DeleteRows(videosTable, videoId) ELSE videosTable
       /\ state' = DeleteVideoCache(state, videoId, deleteOk, clearOk)
       /\ resp' = [BaseResp("DeleteVideo") EXCEPT
             !.status = IF failed # "none" THEN 500
                        ELSE IF ~found \/ ~deleted THEN 404 ELSE 200,
             !.failed = failed,
             !.id = videoId,
             !.emits = IF emitOk THEN <<event>> ELSE <<>>]
       /\ UNCHANGED <<bucket, uploadedTopic, nextId, now, usePresigned>>

\* ---------------------------------------------------------------- list-videos.step.ts
ListVideosFaults == {"none", "stateGet", "ensure", "db", "stateSet"}

DefaultLimit == 50

Digits == {"0", "1", "2", "3", "4", "5", "6", "7", "8", "9"}

DigitValue(c) ==
    CASE c = "0" -> 0 [] c = "1" -> 1 [] c = "2" -> 2 [] c = "3" -> 3 [] c = "4" -> 4
      [] c = "5" -> 5 [] c = "6" -> 6 [] c = "7" -> 7 [] c = "8" -> 8 [] c = "9" -> 9

\* parseInt(text, 10): the value of the leading digits, NaN when there are none
RECURSIVE ParseDigits(_, _)
ParseDigits(text, acc) ==
    IF Len(text) = 0 \/ Head(text) \notin Digits THEN acc
    ELSE ParseDigits(Tail(text), 10 * acc + DigitValue(Head(text)))

ParseInt(text) ==
    IF Len(text) = 0 \/ Head(text) \notin Digits THEN NaN ELSE ParseDigits(text, 0)

\* limitParam ? parseInt(limitParam, 10) : 50
LimitOf(limitParam) == IF Len(limitParam) = 0 THEN DefaultLimit ELSE ParseInt(limitParam)

\* what the list handler answers when state.get finds `cached` (a miss is <<>>)
ListVideosResult(cached, table, limit) ==
    IF cached # <<>> THEN cached[1]
    ELSE [videos |-> ListVideosQuery(table, limit),
          count |-> Len(ListVideosQuery(table, limit))]

\* what the list handler returns when one of its awaited calls throws
ListVideosStatus(failed) == IF failed = "none" THEN 200 ELSE 500

ListVideos(limitParam, fault) ==
    LET limit == LimitOf(limitParam)
        getOk == fault # "stateGet"
        cached == StateGet(state, "video-lists", limit)
        hit == getOk /\ cached # <<>>
        miss == getOk /\ cached = <<>>
        ensureOk == miss /\ ~EnsureThrows(initialized, fault)
        created == EnsureCreates(initialized, tableCreated, fault)
        dbOk == ensureOk /\ created /\ fault # "db" /\ limit # NaN
        setOk == dbOk /\ fault # "stateSet"
        failed == IF ~getOk THEN "stateGet" ELSE IF hit THEN "none"
                  ELSE IF ~ensureOk THEN "ensure" ELSE IF ~dbOk THEN "db"
                  ELSE IF ~setOk THEN "stateSet" ELSE "none"
        result == ListVideosResult(cached, videosTable, limit)
    IN /\ fault \in {"none", failed}
       /\ initialized' = (initialized \/ miss)
       /\ tableCreated' = IF miss THEN created ELSE tableCreated
       /\ state' = IF setOk THEN StateSet(state, "video-lists", limit, result) ELSE state
       /\ resp' = [BaseResp("ListVideos") EXCEPT
             !.status = ListVideosStatus(failed),
             !.failed = failed,
             !.hit = hit,
             !.reqLimit = limit,
             !.list = IF hit \/ setOk THEN result ELSE NoList]
       /\ UNCHANGED <<videosTable, bucket, uploadedTopic, nextId, now, usePresigned>>

\* ---------------------------------------------------------------- process-video-upload (event step)
ProcessVideoUploadFaults ==
    {"none", "stateGet", "stateSetVerify", "ensure", "db", "stateSet", "stateGetGroup",
     "stateClear"}

\* faulty variant: the probe's answer is cached whatever it is
CacheVerificationAnyAnswer(st, s3Key, exists) ==
    StateSet(st, "s3-verifications", s3Key, exists)

\* if (exists) await state.set('s3-verifications', key, true)
CacheVerification(st, s3Key, exists) ==
    IF exists THEN StateSet(st, "s3-verifications", s3Key, TRUE) ELSE st

\* faulty variant: the object is probed whether or not an answer is cached
VerificationProbesAlways(cached) == 1

\* calls of S3Service.verifyObjectExists in a run: none on a cached answer
VerificationProbes(cached) == IF cached # <<>> THEN 0 ELSE 1

\* faulty variant: the handler returns when the object was not found
StoreMetadataOnlyIfExists(exists) == exists

\* if (!exists) only logs a warning: the metadata is stored either way
StoreMetadataWhen(exists) == TRUE

\* faulty variant: the catch block rethrows
ProcessVideoUploadRethrows(failed) == IF failed = "none" THEN "returned" ELSE "thrown"

\* the catch block logs and does not rethrow
ProcessVideoUploadOutcome(failed) == "returned"

ProcessVideoUpload(input, headThrows, fault) ==
    LET getOk == fault # "stateGet"
        cached == StateGet(state, "s3-verifications", input.s3Key)
        hit == getOk /\ cached # <<>>
        miss == getOk /\ cached = <<>>
        exists == IF hit THEN cached[1]
                  ELSE VerifyObjectExists(bucket, input.s3Key, headThrows)
        verifyOk == getOk /\ ~(miss /\ exists /\ fault = "stateSetVerify")
        storeOk == verifyOk /\ StoreMetadataWhen(exists)
        ensureOk == storeOk /\ ~EnsureThrows(initialized, fault)
        created == EnsureCreates(initialized, tableCreated, fault)
        dbOk == ensureOk /\ created /\ fault # "db"
        setOk == dbOk /\ fault # "stateSet"
        groupOk == setOk /\ fault # "stateGetGroup"
        clearOk == groupOk /\ fault # "stateClear"
        failed == IF ~getOk THEN "stateGet" ELSE IF ~verifyOk THEN "stateSetVerify"
                  ELSE IF ~storeOk THEN "none"
                  ELSE IF ~ensureOk THEN "ensure" ELSE IF ~dbOk THEN "db"
                  ELSE IF ~setOk THEN "stateSet" ELSE IF ~groupOk THEN "stateGetGroup"
                  ELSE IF ~clearOk THEN "stateClear" ELSE "none"
        afterVerify == IF miss /\ verifyOk
                       THEN CacheVerification(state, input.s3Key, exists) ELSE state
        afterSet == IF setOk
                    THEN StateSet(afterVerify, "videos", input.videoId,
                            Snapshot(input.videoId, input.filename, input.contentType,
                                     input.size, now, input.s3Key, input.publicUrl))
                    ELSE afterVerify
    IN /\ now < MaxClock
       /\ fault \in {"none", failed}
       /\ headThrows => miss
       /\ initialized' = (initialized \/ storeOk)
       /\ tableCreated' = IF storeOk THEN created ELSE tableCreated
       /\ videosTable' = IF dbOk
             THEN CreateVideoMetadata(videosTable, input.videoId, input.filename,
                                      input.contentType, input.size, input.s3Key,
                                      input.publicUrl, usePresigned, now)
             ELSE videosTable
       /\ state' = IF clearOk THEN StateClear(afterSet, "video-lists") ELSE afterSet
       /\ now' = IF dbOk THEN now + 1 ELSE now
       /\ resp' = [BaseResp("ProcessVideoUpload") EXCEPT
             !.outcome = ProcessVideoUploadOutcome(failed),
             !.failed = failed,
             !.id = input.videoId,
             !.s3Key = input.s3Key,
             !.publicUrl = input.publicUrl,
             !.reqLen = input.size,
             !.reqContentType = input.contentType,
             !.probes = IF getOk THEN VerificationProbes(cached) ELSE 0,
             !.hit = hit]
       /\ UNCHANGED <<bucket, uploadedTopic, nextId, usePresigned>>

\* ---------------------------------------------------------------- cache-cleanup-cron.step.ts
CacheCleanupJobFaults == {"none", "stateGetGroup"}

\* faulty variant: the job clears the upload-urls group it counted
CacheCleanupJobClearsUploadUrls(st) == StateClear(st, "upload-urls")

\* the job only reads: state.getGroup of videos, video-lists and upload-urls
CacheCleanupJobState(st) == st

\* three state.getGroup calls and logging; the catch block does not rethrow
CacheCleanupJob(fault) ==
    /\ resp' = [BaseResp("CacheCleanupJob") EXCEPT !.failed = fault]
    /\ state' = CacheCleanupJobState(state)
    /\ UNCHANGED <<videosTable, bucket, uploadedTopic, nextId, now, usePresigned,
                   initialized, tableCreated>>

\* ---------------------------------------------------------------- Next
\* a run has at most MaxThrows failing calls
Throws(failing) ==
    /\ failing => thrown < MaxThrows
    /\ thrown' = IF failing THEN thrown + 1 ELSE thrown

Next ==
    \/ \E req \in UploadRequests, fault \in UploadVideoFaults :
          Throws(fault # "none") /\ UploadVideo(req, fault) /\ UNCHANGED calls
    \/ \E req \in ExpressRequests, fault \in ExpressUploadFaults :
          Throws(fault # "none") /\ ExpressUpload(req, fault) /\ UNCHANGED calls
    \/ \E req \in UploadUrlRequests, fault \in GetUploadUrlFaults :
          Throws(fault # "none") /\ GetUploadUrl(req, fault) /\ UNCHANGED calls
    \/ \E videoId \in VideoIds, fault \in GetVideoFaults :
          Throws(fault # "none") /\ GetVideo(videoId, fault) /\ UNCHANGED calls
    \/ \E videoId \in VideoIds, fault \in DeleteVideoFaults :
          Throws(fault # "none") /\ DeleteVideo(videoId, fault) /\ UNCHANGED calls
    \/ \E limitParam \in LimitParams, fault \in ListVideosFaults :
          Throws(fault # "none") /\ ListVideos(limitParam, fault) /\ UNCHANGED calls
    \/ \E input \in uploadedTopic, headThrows \in BOOLEAN,
          fault \in ProcessVideoUploadFaults :
          Throws(headThrows \/ fault # "none")
             /\ ProcessVideoUpload(input, headThrows, fault) /\ UNCHANGED calls
    \/ \E fault \in CacheCleanupJobFaults :
          Throws(fault # "none") /\ CacheCleanupJob(fault) /\ UNCHANGED calls

Spec == Init /\ [][Next]_vars

\* ---------------------------------------------------------------- the event step on any input
\* inputs the step's schema accepts: any id, the key of that id, a size, a url
Signals ==
    {Event("video-uploaded", videoId, S3KeyOf(videoId, <<"a", "webm">>), <<"a", "webm">>,
           "video/mp4", size, PublicUrlOf(S3KeyOf(videoId, <<"a", "webm">>))) :
        videoId \in VideoIds, size \in 1..2}

\* upload-url requests, gets, and the topic video-uploaded delivering any input of
\* the schema, each input as often as the topic redelivers it
SignalNext ==
    \/ \E req \in UploadUrlRequests, fault \in GetUploadUrlFaults :
          Throws(fault # "none") /\ GetUploadUrl(req, fault) /\ UNCHANGED calls
    \/ \E videoId \in VideoIds, fault \in GetVideoFaults :
          Throws(fault # "none") /\ GetVideo(videoId, fault) /\ UNCHANGED calls
    \/ \E input \in Signals, headThrows \in BOOLEAN,
          fault \in ProcessVideoUploadFaults :
          Throws(headThrows \/ fault # "none")
             /\ ProcessVideoUpload(input, headThrows, fault) /\ UNCHANGED calls

SignalSpec == Init /\ [][SignalNext]_vars

\* ---------------------------------------------------------------- createVideoMetadata, await by await
\* arguments the callers pass: the key is generated from the id and the name,
\* the public url is passed (the uploads, the event step) or left out (upload-url)
UpsertArgsOf(videoId) ==
    {[videoId |-> videoId, filename |-> filename, contentType |-> DefaultContentType,
      size |-> 1, s3Key |-> S3KeyOf(videoId, filename), publicUrl |-> publicUrl] :
        filename \in {<<"a", "webm">>, <<"a", "mp4">>},
        publicUrl \in {NoUrl, PublicUrlOf(S3KeyOf(videoId, <<"a", "webm">>))}}

UpsertArgs == UNION {UpsertArgsOf(videoId) : videoId \in VideoIds}

\* where a call stands once ensureVideoTable() is behind it: listVideos and
\* getVideoMetadata go on to their SELECT, createVideoMetadata to
\* publicUrl || generatePublicUrl(s3Key); the event step passes its publicUrl
AfterEnsure(call) ==
    [call EXCEPT !.pc = IF call.op = "ListVideos" THEN "select"
                        ELSE IF call.op = "DeleteVideo" THEN "getVideoMetadata"
                        ELSE IF call.op = "ProcessVideoUpload" THEN "upsert"
                        ELSE IF call.args.publicUrl = NoUrl THEN "generatePublicUrl"
                        ELSE "insert"]

\* a caller enters createVideoMetadata; ensureVideoTable returns at once when
\* the flag is up, else raises it and awaits CREATE TABLE
CreateVideoMetadataCall(run, args) ==
    LET call == [IdleCall EXCEPT !.op = "createVideoMetadata", !.args = args,
                                 !.startedAt = now]
    IN /\ calls[run].pc \in {"idle", "returned", "threw"}
       /\ initialized' = TRUE
       /\ calls' = [calls EXCEPT ![run] =
             IF initialized THEN AfterEnsure(call) ELSE [call EXCEPT !.pc = "createTable"]]
       /\ UNCHANGED <<videosTable, bucket, state, uploadedTopic, nextId, now,
                      usePresigned, tableCreated, thrown, resp>>

\* CREATE TABLE IF NOT EXISTS videos completes
CreateTableDone(run) ==
    /\ calls[run].pc = "createTable"
    /\ tableCreated' = TRUE
    /\ calls' = [calls EXCEPT ![run] = AfterEnsure(calls[run])]
    /\ UNCHANGED <<videosTable, bucket, state, uploadedTopic, nextId, now,
                   usePresigned, initialized, thrown, resp>>

\* await S3Service.generatePublicUrl(s3Key) completes
GeneratePublicUrlDone(run) ==
    /\ calls[run].pc = "generatePublicUrl"
    /\ calls' = [calls EXCEPT ![run] =
          [calls[run] EXCEPT
             !.pc = "insert",
             !.args.publicUrl = GeneratePublicUrl(calls[run].args.s3Key, usePresigned, now)]]
    /\ UNCHANGED <<videosTable, bucket, state, uploadedTopic, nextId, now,
                   usePresigned, initialized, tableCreated, thrown, resp>>

\* the INSERT statement runs in the database: as one statement, against the
\* table as it is then, under the primary key
InsertDone(run) ==
    LET args == calls[run].args
        after == CreateVideoMetadata(videosTable, args.videoId, args.filename,
                                     args.contentType, args.size, args.s3Key,
                                     args.publicUrl, usePresigned, now)
        error == IF ~tableCreated THEN UndefinedTableError
                 ELSE IF ~PrimaryKeyHolds(after) THEN DuplicateKeyError ELSE ""
    IN /\ calls[run].pc = "insert"
       /\ now < MaxClock
       /\ videosTable' = IF error = "" THEN after ELSE videosTable
       /\ now' = IF error = "" THEN now + 1 ELSE now
       /\ calls' = [calls EXCEPT ![run] =
             [calls[run] EXCEPT !.pc = IF error = "" THEN "returned" ELSE "threw",
                                !.error = error]]
       /\ UNCHANGED <<bucket, state, uploadedTopic, nextId, usePresigned, initialized,
                      tableCreated, thrown, resp>>

UpsertNext ==
    \/ \E run \in Runs, args \in UpsertArgs : CreateVideoMetadataCall(run, args)
    \/ \E run \in Runs : CreateTableDone(run)
    \/ \E run \in Runs : GeneratePublicUrlDone(run)
    \/ \E run \in Runs : InsertDone(run)

UpsertSpec == Init /\ [][UpsertNext]_vars

\* ---------------------------------------------------------------- the list handler, await by await
\* a request enters the handler, which computes the limit and awaits state.get
ListVideosCall(run, limitParam) ==
    /\ calls[run].pc \in {"idle", "returned"}
    /\ calls' = [calls EXCEPT ![run] =
          [IdleCall EXCEPT !.op = "ListVideos", !.pc = "stateGet",
                           !.args = [limit |-> LimitOf(limitParam)], !.startedAt = now]]
    /\ UNCHANGED <<videosTable, bucket, state, uploadedTopic, nextId, now, usePresigned,
                   initialized, tableCreated, thrown, resp>>

\* state.get answers: a hit returns the cached result; a miss enters listVideos,
\* whose ensureVideoTable returns at once when the flag is up, else raises it
\* and awaits CREATE TABLE
ListStateGetDone(run) ==
    LET call == calls[run]
        cached == StateGet(state, "video-lists", call.args.limit)
    IN /\ call.pc = "stateGet"
       /\ initialized' = (initialized \/ cached = <<>>)
       /\ calls' = [calls EXCEPT ![run] =
             IF cached # <<>>
             THEN [call EXCEPT !.pc = "returned", !.status = 200,
                               !.list = ListVideosResult(cached, videosTable, call.args.limit)]
             ELSE IF initialized THEN AfterEnsure(call)
             ELSE [call EXCEPT !.pc = "createTable"]]
       /\ UNCHANGED <<videosTable, bucket, state, uploadedTopic, nextId, now,
                      usePresigned, tableCreated, thrown, resp>>

\* the SELECT runs in the database; an error lands in the handler's catch
ListSelectDone(run) ==
    LET call == calls[run]
        error == IF ~tableCreated THEN UndefinedTableError
                 ELSE IF call.args.limit = NaN THEN "invalid input syntax" ELSE ""
    IN /\ call.pc = "select"
       /\ calls' = [calls EXCEPT ![run] =
             IF error # ""
             THEN [call EXCEPT !.pc = "returned", !.status = ListVideosStatus("db"),
                               !.error = error]
             ELSE [call EXCEPT !.pc = "stateSet",
                               !.list = ListVideosResult(<<>>, videosTable, call.args.limit)]]
       /\ UNCHANGED <<videosTable, bucket, state, uploadedTopic, nextId, now,
                      usePresigned, initialized, tableCreated, thrown, resp>>

\* state.set stores the result under the limit's key and the handler returns it
ListStateSetDone(run) ==
    LET call == calls[run]
    IN /\ call.pc = "stateSet"
       /\ state' = StateSet(state, "video-lists", call.args.limit, call.list)
       /\ calls' = [calls EXCEPT ![run] =
             [call EXCEPT !.pc = "returned", !.status = ListVideosStatus("none")]]
       /\ UNCHANGED <<videosTable, bucket, uploadedTopic, nextId, now, usePresigned,
                      initialized, tableCreated, thrown, resp>>

ListNext ==
    \/ \E run \in Runs, limitParam \in LimitParams : ListVideosCall(run, limitParam)
    \/ \E run \in Runs : ListStateGetDone(run)
    \/ \E run \in Runs : CreateTableDone(run)
    \/ \E run \in Runs : ListSelectDone(run)
    \/ \E run \in Runs : ListStateSetDone(run)

ListSpec == Init /\ [][ListNext]_vars

\* ---------------------------------------------------------------- list calls racing the writers
\* the uploads that race it: raw bodies of one byte
RaceRequests == {r \in ExpressRequests : r.len = 1}

\* the list handler run that races the writers
RacingRun == CHOOSE run \in Runs : TRUE

\* one list handler run at a time, await by await, alongside the handlers that
\* add or remove a row: both upload routes, delete and the event step, none of
\* whose awaited calls is made to fail
RaceNext ==
    \/ \E limitParam \in LimitParams : ListVideosCall(RacingRun, limitParam)
    \/ ListStateGetDone(RacingRun)
    \/ CreateTableDone(RacingRun)
    \/ ListSelectDone(RacingRun)
    \/ ListStateSetDone(RacingRun)
    \/ \E req \in RaceRequests :
          Throws(FALSE) /\ UploadVideo(req, "none") /\ UNCHANGED calls
    \/ \E req \in RaceRequests :
          Throws(FALSE) /\ ExpressUpload(req, "none") /\ UNCHANGED calls
    \/ \E videoId \in VideoIds :
          Throws(FALSE) /\ DeleteVideo(videoId, "none") /\ UNCHANGED calls
    \/ \E input \in uploadedTopic :
          Throws(FALSE) /\ ProcessVideoUpload(input, FALSE, "none") /\ UNCHANGED calls

RaceSpec == Init /\ [][RaceNext]_vars

\* ---------------------------------------------------------------- the upload-url route, both definitions
\* POST /api/recorder/upload-url served by either handler definition of
\* get-upload-url.step.ts, with the gets and deletes of the ids it hands out
GrantNext ==
    \/ \E req \in UploadUrlRequests, fault \in GetUploadUrlFaults :
          Throws(fault # "none") /\ GetUploadUrl(req, fault) /\ UNCHANGED calls
    \/ \E req \in UploadUrlRequests, fault \in GetUploadUrlSecondFaults :
          Throws(fault # "none") /\ GetUploadUrlSecond(req, fault) /\ UNCHANGED calls
    \/ \E videoId \in VideoIds, fault \in GetVideoFaults :
          Throws(fault # "none") /\ GetVideo(videoId, fault) /\ UNCHANGED calls
    \/ \E videoId \in VideoIds, fault \in DeleteVideoFaults :
          Throws(fault # "none") /\ DeleteVideo(videoId, fault) /\ UNCHANGED calls

GrantSpec == Init /\ [][GrantNext]_vars

\* ---------------------------------------------------------------- the delete handler, await by await
\* a request enters the handler, which calls getVideoMetadata; its
\* ensureVideoTable returns at once when the flag is up, else raises it and
\* awaits CREATE TABLE; a run serves one delete request
DeleteVideoCall(run, videoId) ==
    LET call == [IdleCall EXCEPT
                    !.op = "DeleteVideo", !.startedAt = now,
                    !.args = [videoId |-> videoId,
                              existed |-> \E r \in videosTable : r.id = videoId,
                              video |-> NoVideo, evicted |-> FALSE, cleared |-> FALSE,
                              emits |-> <<>>]]
    IN /\ calls[run].pc = "idle"
       /\ initialized' = TRUE
       /\ calls' = [calls EXCEPT ![run] =
             IF initialized THEN AfterEnsure(call) ELSE [call EXCEPT !.pc = "createTable"]]
       /\ UNCHANGED <<videosTable, bucket, state, uploadedTopic, nextId, now,
                      usePresigned, tableCreated, thrown, resp>>

\* the SELECT of getVideoMetadata runs: no row answers 404, an error lands in
\* the handler's catch, a row sends the handler on to deleteVideo
DeleteSelectDone(run) ==
    LET call == calls[run]
        video == GetVideoMetadata(videosTable, call.args.videoId)
    IN /\ call.pc = "getVideoMetadata"
       /\ calls' = [calls EXCEPT ![run] =
             IF ~tableCreated
             THEN [call EXCEPT !.pc = "returned", !.status = 500,
                               !.error = UndefinedTableError]
             ELSE IF video = NoVideo
             THEN [call EXCEPT !.pc = "returned", !.status = 404]
             ELSE [call EXCEPT !.pc = "deleteVideo", !.args.video = video]]
       /\ UNCHANGED <<videosTable, bucket, state, uploadedTopic, nextId, now,
                      usePresigned, initialized, tableCreated, thrown, resp>>

\* DELETE ... RETURNING id runs as one statement: no returned row answers 404
DeleteRowDone(run) ==
    LET call == calls[run]
        deleted == DeleteReturned(videosTable, call.args.videoId)
    IN /\ call.pc = "deleteVideo"
       /\ videosTable' = DeleteRows(videosTable, call.args.videoId)
       /\ calls' = [calls EXCEPT ![run] =
             IF deleted THEN [call EXCEPT !.pc = "stateDelete"]
             ELSE [call EXCEPT !.pc = "returned", !.status = 404]]
       /\ UNCHANGED <<bucket, state, uploadedTopic, nextId, now, usePresigned,
                      initialized, tableCreated, thrown, resp>>

\* await state.delete('videos', videoId)
DeleteStateDeleteDone(run) ==
    LET call == calls[run]
    IN /\ call.pc = "stateDelete"
       /\ state' = StateDelete(state, "videos", call.args.videoId)
       /\ calls' = [calls EXCEPT ![run] =
             [call EXCEPT !.pc = "stateClear", !.args.evicted = TRUE]]
       /\ UNCHANGED <<videosTable, bucket, uploadedTopic, nextId, now, usePresigned,
                      initialized, tableCreated, thrown, resp>>

\* await state.clear('video-lists')
DeleteStateClearDone(run) ==
    LET call == calls[run]
    IN /\ call.op = "DeleteVideo"
       /\ call.pc = "stateClear"
       /\ state' = StateClear(state, "video-lists")
       /\ calls' = [calls EXCEPT ![run] =
             [call EXCEPT !.pc = "emit", !.args.cleared = TRUE]]
       /\ UNCHANGED <<videosTable, bucket, uploadedTopic, nextId, now, usePresigned,
                      initialized, tableCreated, thrown, resp>>

\* await emit('video-deleted'), then the handler returns 200
DeleteEmitDone(run) ==
    LET call == calls[run]
        event == Event("video-deleted", call.args.videoId, call.args.video.s3Key,
                       call.args.video.filename, "", 0, NoUrl)
    IN /\ call.pc = "emit"
       /\ calls' = [calls EXCEPT ![run] =
             [call EXCEPT !.pc = "returned", !.status = 200, !.args.emits = <<event>>]]
       /\ UNCHANGED <<videosTable, bucket, state, uploadedTopic, nextId, now,
                      usePresigned, initialized, tableCreated, thrown, resp>>

\* deletes of any id, concurrent, with the uploads that make the rows
DeleteNext ==
    \/ \E req \in RaceRequests :
          Throws(FALSE) /\ UploadVideo(req, "none") /\ UNCHANGED calls
    \/ \E run \in Runs, videoId \in VideoIds : DeleteVideoCall(run, videoId)
    \/ \E run \in Runs : CreateTableDone(run)
    \/ \E run \in Runs : DeleteSelectDone(run)
    \/ \E run \in Runs : DeleteRowDone(run)
    \/ \E run \in Runs : DeleteStateDeleteDone(run)
    \/ \E run \in Runs : DeleteStateClearDone(run)
    \/ \E run \in Runs : DeleteEmitDone(run)

DeleteSpec == Init /\ [][DeleteNext]_vars

\* ---------------------------------------------------------------- the event step, await by await
\* the topic delivers an event to the handler, which awaits
\* state.get('s3-verifications', key)
ProcessVideoUploadCall(run, input) ==
    /\ calls[run].pc \in {"idle", "returned"}
    /\ calls' = [calls EXCEPT ![run] =
          [IdleCall EXCEPT !.op = "ProcessVideoUpload", !.pc = "verifyGet",
                           !.args = [input |-> input], !.startedAt = now]]
    /\ UNCHANGED <<videosTable, bucket, state, uploadedTopic, nextId, now, usePresigned,
                   initialized, tableCreated, thrown, resp>>

\* the handler enters createVideoMetadata, whose ensureVideoTable returns at
\* once when the flag is up, else raises it and awaits CREATE TABLE
EnterCreateVideoMetadata(call) ==
    IF initialized THEN AfterEnsure(call) ELSE [call EXCEPT !.pc = "createTable"]

\* state.get answers: a cached answer is used, a miss awaits verifyObjectExists
VerifyGetDone(run) ==
    LET call == calls[run]
        cached == StateGet(state, "s3-verifications", call.args.input.s3Key)
    IN /\ call.pc = "verifyGet"
       /\ initialized' = (initialized \/ cached # <<>>)
       /\ calls' = [calls EXCEPT ![run] =
             IF cached # <<>> THEN EnterCreateVideoMetadata(call)
             ELSE [call EXCEPT !.pc = "verifyObjectExists"]]
       /\ UNCHANGED <<videosTable, bucket, state, uploadedTopic, nextId, now,
                      usePresigned, tableCreated, thrown, resp>>

\* verifyObjectExists answers: true awaits the state.set of the answer, false
\* goes on to createVideoMetadata
VerifyObjectExistsDone(run) ==
    LET call == calls[run]
        exists == VerifyObjectExists(bucket, call.args.input.s3Key, FALSE)
    IN /\ call.pc = "verifyObjectExists"
       /\ initialized' = (initialized \/ ~exists)
       /\ calls' = [calls EXCEPT ![run] =
             IF exists THEN [call EXCEPT !.pc = "verifySet"]
             ELSE EnterCreateVideoMetadata(call)]
       /\ UNCHANGED <<videosTable, bucket, state, uploadedTopic, nextId, now,
                      usePresigned, tableCreated, thrown, resp>>

\* await state.set('s3-verifications', key, true)
VerifySetDone(run) ==
    LET call == calls[run]
    IN /\ call.pc = "verifySet"
       /\ state' = CacheVerification(state, call.args.input.s3Key, TRUE)
       /\ initialized' = TRUE
       /\ calls' = [calls EXCEPT ![run] = EnterCreateVideoMetadata(call)]
       /\ UNCHANGED <<videosTable, bucket, uploadedTopic, nextId, now, usePresigned,
                      tableCreated, thrown, resp>>

\* the INSERT of createVideoMetadata runs as one statement; an error lands in
\* the handler's catch, which returns
UpsertDone(run) ==
    LET call == calls[run]
        input == call.args.input
    IN /\ call.pc = "upsert"
       /\ now < MaxClock
       /\ videosTable' = IF tableCreated
             THEN CreateVideoMetadata(videosTable, input.videoId, input.filename,
                                      input.contentType, input.size, input.s3Key,
                                      input.publicUrl, usePresigned, now)
             ELSE videosTable
       /\ now' = IF tableCreated THEN now + 1 ELSE now
       /\ calls' = [calls EXCEPT ![run] =
             IF tableCreated THEN [call EXCEPT !.pc = "stateSet"]
             ELSE [call EXCEPT !.pc = "returned", !.error = UndefinedTableError]]
       /\ UNCHANGED <<bucket, state, uploadedTopic, nextId, usePresigned, initialized,
                      tableCreated, thrown, resp>>

\* await state.set('videos', input.videoId, {...})
SnapshotSetDone(run) ==
    LET call == calls[run]
        input == call.args.input
    IN /\ call.pc = "stateSet"
       /\ state' = StateSet(state, "videos", input.videoId,
                        Snapshot(input.videoId, input.filename, input.contentType,
                                 input.size, now, input.s3Key, input.publicUrl))
       /\ calls' = [calls EXCEPT ![run] = [call EXCEPT !.pc = "getGroup"]]
       /\ UNCHANGED <<videosTable, bucket, uploadedTopic, nextId, now, usePresigned,
                      initialized, tableCreated, thrown, resp>>

\* await state.getGroup('video-lists'): read only
GetGroupDone(run) ==
    /\ calls[run].pc = "getGroup"
    /\ calls' = [calls EXCEPT ![run] = [calls[run] EXCEPT !.pc = "stateClear"]]
    /\ UNCHANGED <<videosTable, bucket, state, uploadedTopic, nextId, now, usePresigned,
                   initialized, tableCreated, thrown, resp>>

\* await state.clear('video-lists'), then the handler returns
ListsClearDone(run) ==
    /\ calls[run].op = "ProcessVideoUpload"
    /\ calls[run].pc = "stateClear"
    /\ state' = StateClear(state, "video-lists")
    /\ calls' = [calls EXCEPT ![run] = [calls[run] EXCEPT !.pc = "returned"]]
    /\ UNCHANGED <<videosTable, bucket, uploadedTopic, nextId, now, usePresigned,
                   initialized, tableCreated, thrown, resp>>

\* the run that handles the events; the other runs serve the deletes
ReconcilingRun == CHOOSE run \in Runs : TRUE

\* one event step run at a time, await by await, alongside the uploads that
\* emit the events and the deletes, await by await
ReconcileNext ==
    \/ \E req \in RaceRequests :
          Throws(FALSE) /\ UploadVideo(req, "none") /\ UNCHANGED calls
    \/ \E input \in uploadedTopic : ProcessVideoUploadCall(ReconcilingRun, input)
    \/ VerifyGetDone(ReconcilingRun)
    \/ VerifyObjectExistsDone(ReconcilingRun)
    \/ VerifySetDone(ReconcilingRun)
    \/ UpsertDone(ReconcilingRun)
    \/ SnapshotSetDone(ReconcilingRun)
    \/ GetGroupDone(ReconcilingRun)
    \/ ListsClearDone(ReconcilingRun)
    \/ \E run \in Runs \ {ReconcilingRun}, videoId \in VideoIds : DeleteVideoCall(run, videoId)
    \/ \E run \in Runs : CreateTableDone(run)
    \/ \E run \in Runs : DeleteSelectDone(run)
    \/ \E run \in Runs : DeleteRowDone(run)
    \/ \E run \in Runs : DeleteStateDeleteDone(run)
    \/ \E run \in Runs : DeleteStateClearDone(run)
    \/ \E run \in Runs : DeleteEmitDone(run)

ReconcileSpec == Init /\ [][ReconcileNext]_vars

\* ================================================================ claims
ListingOf(table, limit) ==
    [videos |-> ListVideosQuery(table, limit), count |-> Len(ListVideosQuery(table, limit))]

DirectUploads == {"UploadVideo", "ExpressUpload"}

HasRow(videoId) == \E r \in videosTable : r.id = videoId

\* C1: after a successful direct upload or delete, the list call issued next
\* answers with the table's current listing, never with an older cached one.
C1_NextListIsCurrent ==
    [][(/\ resp.op \in DirectUploads \cup {"DeleteVideo"}
        /\ resp.status = 200
        /\ resp'.op = "ListVideos"
        /\ resp'.status = 200)
       => resp'.list = ListingOf(videosTable', resp'.reqLimit)]_vars

\* C2: every handler that adds or removes a row (both upload routes, the
\* upload-url request, the event step, delete) leaves the video-lists group
\* empty when it reports success.
C2_ListsClearedOnSuccess ==
    (\/ resp.op \in DirectUploads \cup {"GetUploadUrl", "DeleteVideo"} /\ resp.status = 200
     \/ resp.op = "ProcessVideoUpload" /\ resp.failed = "none")
    => DOMAIN state["video-lists"] = {}

\* C3: a get of id X issued right after a successful delete of X answers 404,
\* whether or not videos[X] was cached before the delete.
C3_DeleteThenGetNotFound ==
    [][(/\ resp.op = "DeleteVideo"
        /\ resp.status = 200
        /\ resp'.op = "GetVideo"
        /\ resp'.id = resp.id
        /\ resp'.failed = "none")
       => resp'.status = 404]_vars

\* C3 witness: a video uploaded through the step (so cached), later deleted, and
\* a get of it answered 404
C3_Witness ==
    /\ resp.op = "GetVideo"
    /\ resp.status = 404
    /\ thrown = 0
    /\ \E e \in uploadedTopic : e.videoId = resp.id

\* C4: a get of the id a successful direct upload returned answers with the
\* payload's length, the upload's content type and a non-empty public url.
C4_UploadThenGet ==
    [][(/\ resp.op \in DirectUploads
        /\ resp.status = 200
        /\ resp'.op = "GetVideo"
        /\ resp'.id = resp.id
        /\ resp'.failed = "none")
       => (/\ resp'.status = 200
           /\ resp'.video.size = resp.reqLen
           /\ resp'.video.contentType = resp.reqContentType
           /\ resp'.video.s3Url # NoUrl)]_vars

\* C4 witness: a get answered with a 2-byte video that is also cached (warm)
C4_Witness ==
    /\ resp.op = "GetVideo"
    /\ resp.status = 200
    /\ resp.video.size = 2
    /\ resp.id \in DOMAIN state["videos"]

\* C5: the upsert of the event step, run for an id whose row holds the same
\* values, leaves the table as it was, with one row for the id.
C5_UpsertTwice ==
    [][(/\ resp'.op = "ProcessVideoUpload"
        /\ resp'.failed = "none"
        /\ HasRow(resp'.id))
       => (/\ videosTable' = videosTable
           /\ Cardinality({r \in videosTable' : r.id = resp'.id}) = 1)]_vars

\* C5 witness: the event step has upserted a row that an earlier handler created
C5_Witness ==
    /\ resp.op = "ProcessVideoUpload"
    /\ resp.failed = "none"
    /\ \E r \in videosTable : r.id = resp.id /\ r.created_at < now - 1

\* C6: no entry of the s3-verifications group holds false.
C6_OnlyTrueCached ==
    \A k \in DOMAIN state["s3-verifications"] : state["s3-verifications"][k] = TRUE

\* C6 witness: the event step probed, the probe failed, and nothing was cached
C6_Witness ==
    /\ resp.op = "ProcessVideoUpload"
    /\ resp.failed = "none"
    /\ resp.probes = 1
    /\ resp.s3Key \notin DOMAIN state["s3-verifications"]

\* C7: a list call whose state.get or state.set fails still answers 200 with
\* the table's listing.
C7_ListSurvivesCacheFailure ==
    (resp.op = "ListVideos" /\ resp.failed \in {"stateGet", "stateSet"})
    => (resp.status = 200 /\ resp.list = ListingOf(videosTable, resp.reqLimit))

\* C8: a direct upload whose state.set, state.clear or emit fails after the
\* object and the row are stored does not answer with an error.
C8_UploadSurvivesCacheFailure ==
    (resp.op = "UploadVideo" /\ resp.failed \in {"stateSet", "stateClear", "emit"})
    => (resp.status = 200 /\ HasRow(resp.id))

\* C9: the event step never throws, whichever of its calls fails.
C9_EventStepReturns ==
    resp.op = "ProcessVideoUpload" => resp.outcome = "returned"

\* C9 witness: a call of the event step failed
C9_Witness ==
    resp.op = "ProcessVideoUpload" /\ resp.failed # "none"

\* C10: a direct upload whose object upload or row insert fails answers 500,
\* writes nothing to the state store and emits no event.
C10_FailedUploadNoCacheNoEvent ==
    [][(/\ resp'.op \in DirectUploads
        /\ resp'.failed \in {"s3", "ensure", "db"})
       => (/\ resp'.status = 500
           /\ state' = state
           /\ uploadedTopic' = uploadedTopic
           /\ resp'.emits = <<>>)]_vars

\* C10 witness: the step's insert failed while a list was cached, and it still is
C10_Witness ==
    /\ resp.op = "UploadVideo"
    /\ resp.failed = "db"
    /\ resp.id # NoId
    /\ DOMAIN state["video-lists"] # {}

\* C11: a direct upload of an empty payload answers 400 and stores no object,
\* writes no row, changes no state group and emits nothing; no direct upload
\* succeeds with a payload of length 0.
C11_EmptyUploadRejected ==
    [][resp'.op \in DirectUploads
       => (/\ resp'.status = 200 => resp'.reqLen > 0
           /\ resp'.error = EmptyVideoError
              => (/\ resp'.status = 400
                  /\ bucket' = bucket
                  /\ videosTable' = videosTable
                  /\ state' = state
                  /\ uploadedTopic' = uploadedTopic
                  /\ resp'.emits = <<>>))]_vars

\* C11 witness: an empty upload was rejected while a row, an object and cached
\* entries were in place
C11_Witness ==
    /\ resp.op \in DirectUploads
    /\ resp.error = EmptyVideoError
    /\ videosTable # {}
    /\ bucket # {}
    /\ DOMAIN state["videos"] # {}

\* C12: a delete of an id that has no row answers 404, leaves every state group
\* as it was and emits nothing.
C12_DeleteMissingIsNoOp ==
    [][(/\ resp'.op = "DeleteVideo"
        /\ resp'.failed = "none"
        /\ ~HasRow(resp'.id))
       => (/\ resp'.status = 404
           /\ state' = state
           /\ videosTable' = videosTable
           /\ uploadedTopic' = uploadedTopic
           /\ resp'.emits = <<>>)]_vars

\* C12 witness: a delete answered 404 while lists and videos were cached
C12_Witness ==
    /\ resp.op = "DeleteVideo"
    /\ resp.status = 404
    /\ DOMAIN state["video-lists"] # {}
    /\ DOMAIN state["videos"] # {}

\* C13: a get answers from videos[id] when that entry is cached and leaves the
\* database alone; on a miss it answers with the row and caches it under
\* videos[id]; without a row it answers 404 and caches nothing.
C13_GetByIdCacheAside ==
    [][(resp'.op = "GetVideo" /\ resp'.failed = "none")
       => LET cached == StateGet(state, "videos", resp'.id)
          IN IF cached # <<>>
             THEN /\ resp'.status = 200
                  /\ resp'.video = cached[1]
                  /\ state' = state
             ELSE IF HasRow(resp'.id)
             THEN /\ resp'.status = 200
                  /\ resp'.video = GetVideoMetadata(videosTable, resp'.id)
                  /\ state' = StateSet(state, "videos", resp'.id, resp'.video)
             ELSE /\ resp'.status = 404
                  /\ state' = state]_vars

C20_ProvisionalRecord ==
    [][(/\ resp.op = "GetUploadUrl"
        /\ resp.status = 200
        /\ resp.reqLen = 0
        /\ resp'.op = "GetVideo"
        /\ resp'.id = resp.id
        /\ resp'.failed = "none")
       => (/\ resp'.status = 200
           /\ resp'.video.size = 0
           /\ resp'.video.id = resp.id
           /\ resp'.video.s3Key = resp.s3Key)]_vars

\* C20 witness: a get answered with a row of size 0 whose object was never stored
C20_Witness ==
    /\ resp.op = "GetVideo"
    /\ resp.status = 200
    /\ resp.video.size = 0
    /\ resp.video.s3Key \notin bucket
    /\ resp.id \in DOMAIN state["upload-urls"]

\* the row of the id the last handler run was about
RowOf(table, videoId) == CHOOSE r \in table : r.id = videoId

C18_RedeliveryIdempotent ==
    [][(/\ resp.op = "ProcessVideoUpload"
        /\ resp.failed = "none"
        /\ resp'.op = "ProcessVideoUpload"
        /\ resp'.failed = "none"
        /\ resp'.id = resp.id
        /\ resp'.s3Key = resp.s3Key
        /\ resp'.reqLen = resp.reqLen
        /\ resp'.reqContentType = resp.reqContentType
        /\ resp'.publicUrl = resp.publicUrl)
       => (/\ videosTable' = videosTable
           /\ state'["videos"] = state["videos"]
           /\ state'["video-lists"] = state["video-lists"]
           /\ state'["s3-verifications"] = state["s3-verifications"])]_vars

\* C15: a row's id and s3_key stay what they are through every later upsert of
\* that id, also one that passes another s3Key.
C15_KeyNeverChanges ==
    [][\A r \in videosTable :
          /\ \E q \in videosTable' : q.id = r.id
          /\ \A q \in videosTable' : q.id = r.id => q.s3_key = r.s3_key]_vars

\* C15 witness: an upsert that passed another s3Key than the row's has returned
C15_Witness ==
    \E run \in Runs :
        /\ calls[run].pc = "returned"
        /\ HasRow(calls[run].args.videoId)
        /\ RowOf(videosTable, calls[run].args.videoId).s3_key # calls[run].args.s3Key

\* C16: whatever the interleaving of two createVideoMetadata calls for one id,
\* the table never holds two rows of that id and no call fails on the
\* primary key.
C16_OneRowNoDuplicateError ==
    /\ \A videoId \in VideoIds :
          Cardinality({r \in videosTable : r.id = videoId}) <= 1
    /\ \A run \in Runs : calls[run].error # DuplicateKeyError

\* C16 witness: two calls for one id, both entered before either INSERT ran,
\* have both returned
C16_Witness ==
    /\ \A run \in Runs : calls[run].pc = "returned" /\ calls[run].startedAt = 1
    /\ \A run, other \in Runs : calls[run].args.videoId = calls[other].args.videoId
    /\ now = 3
    /\ Cardinality(videosTable) = 1

\* C19: on an empty table, every list call with limit 50 that runs alongside
\* another returns 200 with no videos and count 0, and once such calls have
\* returned, video-lists holds that empty result under list:50.
C19_ConcurrentEmptyLists ==
    /\ \A run \in Runs :
          (calls[run].pc = "returned" /\ calls[run].args.limit = DefaultLimit)
          => (calls[run].status = 200 /\ calls[run].list = NoList)
    /\ (\A run \in Runs :
            calls[run].pc = "returned" /\ calls[run].args.limit = DefaultLimit)
       => (/\ DefaultLimit \in DOMAIN state["video-lists"]
           /\ state["video-lists"][DefaultLimit] = NoList)

\* a row is complete when its public url is non-empty and its size is positive
Complete(row) == row.public_url # NoUrl /\ row.size > 0

\* C21: the row an upload-url request inserts is provisional (not complete),
\* whether or not the request declares a size.
C21_GrantRowIsProvisional ==
    [][(resp'.op = "GetUploadUrl" /\ resp'.id # NoId)
       => (/\ \E r \in videosTable' : r.id = resp'.id
           /\ ~Complete(RowOf(videosTable', resp'.id)))]_vars

\* C22: a direct upload that answers 200 has emitted exactly one video-uploaded
\* event, with the row stored, whose videoId, s3Key, size, contentType and
\* publicUrl are the row's; on the step and on the Express route.
C22_UploadEmitsOneSignal ==
    [][(resp'.op \in DirectUploads /\ resp'.status = 200)
       => (/\ Len(resp'.emits) = 1
           /\ resp'.emits[1] \in uploadedTopic'
           /\ \E r \in videosTable' :
                 /\ r.id = resp'.emits[1].videoId
                 /\ r.id = resp'.id
                 /\ r.s3_key = resp'.emits[1].s3Key
                 /\ r.size = resp'.emits[1].size
                 /\ r.content_type = resp'.emits[1].contentType
                 /\ r.public_url = resp'.emits[1].publicUrl)]_vars

\* C23: after a direct upload of n bytes into an empty table answered 200, a
\* list call with limit 1 issued next answers with exactly the uploaded video,
\* of size n, whatever video-lists held before the upload.
C23_UploadThenListOne ==
    [][(/\ resp.op \in DirectUploads
        /\ resp.status = 200
        /\ Cardinality(videosTable) = 1
        /\ HasRow(resp.id)
        /\ resp'.op = "ListVideos"
        /\ resp'.reqLimit = 1
        /\ resp'.failed = "none")
       => (/\ resp'.list.count = 1
           /\ Len(resp'.list.videos) = 1
           /\ resp'.list.videos[1].id = resp.id
           /\ resp'.list.videos[1].size = resp.reqLen)]_vars

\* C24: the createdAt of an id never changes: a row keeps its created_at, and
\* the snapshot cached under videos[id] keeps its createdAt, through every
\* later upsert and every run of the event step.
C24_CreatedAtSetOnce ==
    [][/\ \A r \in videosTable : \A q \in videosTable' :
             q.id = r.id => q.created_at = r.created_at
       /\ \A videoId \in (DOMAIN state["videos"]) \cap (DOMAIN state'["videos"]) :
             state'["videos"][videoId].createdAt = state["videos"][videoId].createdAt]_vars

\* C30: after a direct upload answered 200, videos[id] holds a snapshot whose
\* id, filename, contentType, size, s3Key and url are the row's; on the step
\* and on the Express route.
C30_UploadCachesSnapshot ==
    [][(resp'.op \in DirectUploads /\ resp'.status = 200)
       => (/\ resp'.id \in DOMAIN state'["videos"]
           /\ \E r \in videosTable' :
                 /\ r.id = resp'.id
                 /\ state'["videos"][resp'.id].id = r.id
                 /\ state'["videos"][resp'.id].filename = r.filename
                 /\ state'["videos"][resp'.id].contentType = r.content_type
                 /\ state'["videos"][resp'.id].size = r.size
                 /\ state'["videos"][resp'.id].s3Key = r.s3_key
                 /\ state'["videos"][resp'.id].s3Url = r.public_url)]_vars

C27_DeleteOrder ==
    [][resp'.op = "DeleteVideo"
       => LET rowRemoved == HasRow(resp'.id) /\ ~(\E r \in videosTable' : r.id = resp'.id)
          IN /\ state' # state => rowRemoved
             /\ state'["video-lists"] # state["video-lists"]
                   => resp'.id \notin DOMAIN state'["videos"]
             /\ resp'.status = 200
                   => (/\ rowRemoved
                       /\ resp'.id \notin DOMAIN state'["videos"]
                       /\ DOMAIN state'["video-lists"] = {})
             /\ resp'.failed = "dbDelete" => (videosTable' = videosTable /\ state' = state)
             /\ resp'.failed = "stateDelete" => (rowRemoved /\ state' = state)
             /\ resp'.failed = "stateClear"
                   => (rowRemoved /\ state' = StateDelete(state, "videos", resp'.id))]_vars

\* C27 witness: a delete whose state.clear failed: the row and the cached video
\* of an uploaded id are gone, the cached lists are still there
C27_Witness ==
    /\ resp.op = "DeleteVideo"
    /\ resp.failed = "stateClear"
    /\ \E e \in uploadedTopic : e.videoId = resp.id
    /\ ~HasRow(resp.id)
    /\ resp.id \notin DOMAIN state["videos"]
    /\ DOMAIN state["video-lists"] # {}

\* C28: the event step probes the bucket exactly once when s3-verifications
\* has no entry for the input's key, and not at all when true is cached.
C28_ProbeOnlyOnMiss ==
    [][(resp'.op = "ProcessVideoUpload" /\ resp'.failed # "stateGet")
       => resp'.probes = IF resp'.s3Key \in DOMAIN state["s3-verifications"] THEN 0 ELSE 1]_vars

\* C28 witness: a run of the event step found true cached and did not probe
C28_Witness ==
    /\ resp.op = "ProcessVideoUpload"
    /\ resp.failed = "none"
    /\ resp.hit
    /\ resp.probes = 0
    /\ state["s3-verifications"][resp.s3Key] = TRUE

\* C29: a run of the event step whose probe answered false (the object is
\* missing, or the HEAD failed) still upserts the row, writes videos[id] and
\* clears video-lists, and removes no row.
C29_NegativeProbeProceeds ==
    [][(/\ resp'.op = "ProcessVideoUpload"
        /\ resp'.failed = "none"
        /\ resp'.probes = 1
        /\ resp'.s3Key \notin DOMAIN state'["s3-verifications"])
       => (/\ \E r \in videosTable' : r.id = resp'.id
           /\ resp'.id \in DOMAIN state'["videos"]
           /\ state'["videos"][resp'.id].size = resp'.reqLen
           /\ DOMAIN state'["video-lists"] = {}
           /\ \A r \in videosTable : \E q \in videosTable' : q.id = r.id)]_vars

\* C29 witness: the probe found no object, and the row and the snapshot of the
\* id are there, next to the row of another id
C29_Witness ==
    /\ resp.op = "ProcessVideoUpload"
    /\ resp.failed = "none"
    /\ resp.probes = 1
    /\ thrown = 0
    /\ resp.s3Key \notin bucket
    /\ HasRow(resp.id)
    /\ resp.id \in DOMAIN state["videos"]
    /\ Cardinality(videosTable) = 2

\* C25: whatever a list call that raced a writer has left in video-lists, the
\* group is empty right after the next direct upload, delete or event step
\* run that succeeds.
C25_StaleListRemovedByNextWriter ==
    [][(/\ calls' = calls
        /\ \/ resp'.op \in DirectUploads \cup {"DeleteVideo"} /\ resp'.status = 200
           \/ resp'.op = "ProcessVideoUpload" /\ resp'.failed = "none")
       => DOMAIN state'["video-lists"] = {}]_vars

\* C32: a get answers with the table's row of the id as it is now, or 404 when
\* there is none, whatever videos[id] holds.
C32_GetReadsTheTable ==
    [][(resp'.op = "GetVideo" /\ resp'.failed = "none")
       => IF HasRow(resp'.id)
          THEN /\ resp'.status = 200
               /\ resp'.video = RowToMetadata(RowOf(videosTable, resp'.id))
          ELSE /\ resp'.status = 404
               /\ resp'.video = NoVideo]_vars

\* C32 witness: a get answered 404 for an id whose snapshot is still cached
C32_Witness ==
    /\ resp.op = "GetVideo"
    /\ resp.status = 404
    /\ resp.id \in DOMAIN state["videos"]
    /\ videosTable # {}

\* C33: after a delete of X answered 200, a run of the event step on the
\* video-uploaded event of X, emitted before the delete, leaves X without a row.
C33_DeletedStaysDeleted ==
    [][(/\ resp.op = "DeleteVideo"
        /\ resp.status = 200
        /\ resp'.op = "ProcessVideoUpload"
        /\ resp'.id = resp.id)
       => ~(\E r \in videosTable' : r.id = resp.id)]_vars

\* C37: a delete leaves the upload-urls and s3-verifications groups, the
\* bucket, the other ids' rows and the other ids' cached videos as they were.
C37_DeleteFrame ==
    [][resp'.op = "DeleteVideo"
       => (/\ state'["upload-urls"] = state["upload-urls"]
           /\ state'["s3-verifications"] = state["s3-verifications"]
           /\ bucket' = bucket
           /\ {r \in videosTable' : r.id # resp'.id} = {r \in videosTable : r.id # resp'.id}
           /\ \A videoId \in DOMAIN state["videos"] :
                 videoId # resp'.id
                 => (/\ videoId \in DOMAIN state'["videos"]
                     /\ state'["videos"][videoId] = state["videos"][videoId]))]_vars

\* C37 witness: the row an upload-url request made was deleted and the grant
\* cached for it is still in upload-urls
C37_Witness ==
    /\ resp.op = "DeleteVideo"
    /\ resp.status = 200
    /\ ~HasRow(resp.id)
    /\ resp.id \in DOMAIN state["upload-urls"]

\* C38: no caller is past ensureVideoTable, on its way to its query, while the
\* table has not been created, and no query fails for want of the table.
C38_QueryAfterCreation ==
    \A run \in Runs :
        /\ calls[run].pc \in {"generatePublicUrl", "insert"} => tableCreated
        /\ calls[run].error # UndefinedTableError

\* C35: when no list call is in flight and every row of the table was stored by
\* the UploadVideo step (the one upload route that clears video-lists), each
\* video-lists entry is the listing the table gives now for its limit.
C35_QuiescentListsCurrent ==
    (/\ calls[RacingRun].pc \in {"idle", "returned"}
     /\ \A r \in videosTable : \E e \in uploadedTopic : e.videoId = r.id)
    => \A limit \in DOMAIN state["video-lists"] :
          state["video-lists"][limit] = ListingOf(videosTable, limit)

\* C31: an upload-url request answered 200 leaves upload-urls[id] holding the
\* id and the key of the response and of the id's row; an entry is added only
\* for an id that has its row; a request whose createVideoMetadata failed
\* answers 500 and adds no entry.
C31_GrantCachedAfterRow ==
    [][resp'.op = "GetUploadUrl"
       => (/\ resp'.status = 200
               => (/\ resp'.id \in DOMAIN state'["upload-urls"]
                   /\ state'["upload-urls"][resp'.id].videoId = resp'.id
                   /\ state'["upload-urls"][resp'.id].s3Key = resp'.s3Key
                   /\ \E r \in videosTable' : r.id = resp'.id /\ r.s3_key = resp'.s3Key)
           /\ \A videoId \in DOMAIN state'["upload-urls"] \ DOMAIN state["upload-urls"] :
                 \E r \in videosTable' : r.id = videoId
           /\ resp'.failed \in {"ensure", "db"}
               => (/\ resp'.status = 500
                   /\ state'["upload-urls"] = state["upload-urls"]))]_vars

\* C34: when no handler is in flight, every id cached in the videos group has
\* its row in the table.
C34_CachedIdsHaveRows ==
    (\A run \in Runs : calls[run].pc \in {"idle", "returned"})
    => \A videoId \in DOMAIN state["videos"] : HasRow(videoId)

\* C36: of two deletes of one id, the only deletes of that id, that both
\* arrived while its row existed and have both returned, one answered 200 and
\* the other 404; a delete that
\* answered 404 did no state.delete, no state.clear and no emit, and a delete
\* that answered 200 did all three.
C36_OneDeleteWins ==
    /\ \A r1, r2 \in Runs :
          (/\ r1 # r2
           /\ calls[r1].op = "DeleteVideo" /\ calls[r1].pc = "returned"
           /\ calls[r2].op = "DeleteVideo" /\ calls[r2].pc = "returned"
           /\ calls[r1].args.videoId = calls[r2].args.videoId
           /\ calls[r1].args.existed /\ calls[r2].args.existed
           /\ \A r3 \in Runs \ {r1, r2} :
                 calls[r3].op = "DeleteVideo"
                 => calls[r3].args.videoId # calls[r1].args.videoId)
          => {calls[r1].status, calls[r2].status} = {200, 404}
    /\ \A run \in Runs :
          (calls[run].op = "DeleteVideo" /\ calls[run].pc = "returned")
          => IF calls[run].status = 200
             THEN /\ calls[run].args.evicted
                  /\ calls[run].args.cleared
                  /\ Len(calls[run].args.emits) = 1
                  /\ calls[run].args.emits[1].videoId = calls[run].args.videoId
             ELSE /\ ~calls[run].args.evicted
                  /\ ~calls[run].args.cleared
                  /\ calls[run].args.emits = <<>>

\* C36 witness: two deletes of one id, both arrived while the row existed, have
\* returned, the second after losing the DELETE to the first
C36_Witness ==
    \E r1, r2 \in Runs :
        /\ r1 # r2
        /\ calls[r1].op = "DeleteVideo" /\ calls[r1].pc = "returned"
        /\ calls[r2].op = "DeleteVideo" /\ calls[r2].pc = "returned"
        /\ calls[r1].args.videoId = calls[r2].args.videoId
        /\ calls[r1].args.existed /\ calls[r2].args.existed
        /\ calls[r1].status = 200
        /\ calls[r2].status = 404
        /\ calls[r2].args.video # NoVideo

====
